---- MODULE Spec2Model ----
(***************************************************************************)
(* Model of wiimatch: build_lsq_eqs / lsq_solve (lsq_optimizer.py) and the *)
(* pixel reductions they use.                                              *)
(*                                                                         *)
(* Arrays are functions over the flattened pixel grid 0..NPix-1.  Float    *)
(* values are exact rationals <<n, d>> with d >= 0 in lowest terms; the    *)
(* IEEE specials produced by division by zero are <<1,0>> (+inf),          *)
(* <<-1,0>> (-inf) and <<0,0>> (nan).  Rounding is not modelled.           *)
(***************************************************************************)
EXTENDS Integers, Sequences, FiniteSets, TLC

\* ------------------------------------------------------------ bounds
MaxImages == 2
NPix == 2
\* lsq_solve is explored for systems of at most this many equations
MaxSolve == 4

Pix == 0 .. (NPix - 1)

\* ------------------------------------------------------------ numbers
Abs(n) == IF n < 0 THEN -n ELSE n

Sign(n) == IF n < 0 THEN -1 ELSE IF n > 0 THEN 1 ELSE 0

RECURSIVE Gcd(_, _)
Gcd(x, y) == IF y = 0 THEN x ELSE Gcd(y, x % y)

\* a fraction n/d (d >= 0) in lowest terms; d = 0 keeps only the sign
Norm(n, d) ==
    IF d = 0 THEN <<Sign(n), 0>>
    ELSE IF n = 0 THEN <<0, 1>>
    ELSE LET g == Gcd(Abs(n), d) IN <<n \div g, d \div g>>

R(n) == <<n, 1>>
Zero == <<0, 1>>
NaN == <<0, 0>>
PosInf == <<1, 0>>
NegInf == <<-1, 0>>

IsFinite(x) == x[2] # 0

RNeg(x) == <<-x[1], x[2]>>

\* sums and products cancel common factors before multiplying, to keep the
\* intermediate integers small
RAdd(x, y) ==
    IF x[2] # 0 /\ y[2] # 0
    THEN LET g == Gcd(x[2], y[2])
         IN  Norm(x[1] * (y[2] \div g) + y[1] * (x[2] \div g), (x[2] \div g) * y[2])
    ELSE IF x = NaN \/ y = NaN THEN NaN
    ELSE IF x[2] = 0 /\ y[2] = 0 THEN (IF x = y THEN x ELSE NaN)
    ELSE IF x[2] = 0 THEN x ELSE y

RSub(x, y) == RAdd(x, RNeg(y))

RMul(x, y) ==
    IF x[2] # 0 /\ y[2] # 0 /\ x[1] # 0 /\ y[1] # 0
    THEN LET g1 == Gcd(Abs(x[1]), y[2])
             g2 == Gcd(Abs(y[1]), x[2])
         IN  <<(x[1] \div g1) * (y[1] \div g2), (x[2] \div g2) * (y[2] \div g1)>>
    ELSE Norm(x[1] * y[1], x[2] * y[2])

\* 1 / y; the code only divides by sums of squares, so a zero divisor is +0.0
RInv(y) == IF y[1] < 0 THEN <<-y[2], -y[1]>> ELSE <<y[2], y[1]>>

RDiv(x, y) == RMul(x, RInv(y))

\* integer power as numpy computes it (x**0 = 1, also for x = 0)
RECURSIVE IPow(_, _)
IPow(x, e) == IF e = 0 THEN 1 ELSE x * IPow(x, e - 1)

\* a function as an explicit table of its values (the value is the same; TLC
\* then evaluates each entry once instead of at every application)
Table(f) == f @@ [x \in {} |-> 0]

TableM(M) == Table([i \in DOMAIN M |-> Table(M[i])])

\* ------------------------------------------------------------ index bookkeeping
RECURSIVE Prod(_)
Prod(s) == IF s = <<>> THEN 1 ELSE Head(s) * Prod(Tail(s))

\* np.unravel_index(i, shape): row-major (C order)
RECURSIVE unravel_index(_, _)
unravel_index(i, shape) ==
    IF shape = <<>> THEN <<>>
    ELSE LET stride == Prod(Tail(shape))
         IN  <<i \div stride>> \o unravel_index(i % stride, Tail(shape))

\* np.ravel_multi_index(idx, shape): row-major (C order)
RECURSIVE ravel_multi_index(_, _)
ravel_multi_index(idx, shape) ==
    IF shape = <<>> THEN 0
    ELSE Head(idx) * Prod(Tail(shape)) + ravel_multi_index(Tail(idx), Tail(shape))

\* degree1 = tuple([d + 1 for d in degree])
degree1(degree) == [d \in 1 .. Len(degree) |-> degree[d] + 1]

\* npolycoeff: product of degree1
npolycoeff(degree) == Prod(degree1(degree))

\* gshape = (nimages,) + degree1
gshape(n, degree) == <<n>> \o degree1(degree)

sys_eq_array_size(n, degree) == n * npolycoeff(degree)

\* ------------------------------------------------------------ pixel reductions
\* np.sum(x, dtype=float) over the first n elements of x (0.0 when n = 0)
RECURSIVE SumTo(_, _)
SumTo(x, n) == IF n = 0 THEN Zero ELSE RAdd(SumTo(x, n - 1), x[n - 1])

\* mutant: the combined mask is mask_l alone
logical_and_left(mask_l, mask_m) == mask_l

\* cmask = np.logical_and(mask_l, mask_m)
logical_and(mask_l, mask_m) == [k \in DOMAIN mask_l |-> mask_l[k] /\ mask_m[k]]

\* i = coord_arrays[0]**e[0]; for c, ie in zip(coord_arrays[1:], e[1:]): i *= c**ie
\* (a fresh array: the coordinate arrays themselves are not written)
RECURSIVE coord_power(_, _, _)
coord_power(coord_arrays, e, d) ==
    IF d = 1 THEN [k \in DOMAIN coord_arrays[1] |-> IPow(coord_arrays[1][k], e[1])]
    ELSE LET i == coord_power(coord_arrays, e, d - 1)
         IN  [k \in DOMAIN i |-> i[k] * IPow(coord_arrays[d][k], e[d])]

\* x[cmask] summed: the elements where cmask is false contribute nothing
masked_sum(x, cmask) ==
    SumTo([k \in DOMAIN x |-> IF cmask[k] THEN x[k] ELSE Zero], Cardinality(DOMAIN x))

\* mutant: the difference is taken the other way round (image_m - image_l)
image_pixel_sum_reversed(image_l, image_m, mask_l, mask_m, sigma2_l, sigma2_m, coord_arrays, p) ==
    LET cmask == logical_and(mask_l, mask_m)
        i == coord_power(coord_arrays, p, Len(coord_arrays))
    IN  masked_sum([k \in DOMAIN i |->
                      RDiv(R(i[k] * (image_m[k] - image_l[k])),
                           R(sigma2_l[k] + sigma2_m[k]))], cmask)

image_pixel_sum(image_l, image_m, mask_l, mask_m, sigma2_l, sigma2_m, coord_arrays, p) ==
    LET cmask == logical_and(mask_l, mask_m)
        i == coord_power(coord_arrays, p, Len(coord_arrays))
    IN  masked_sum([k \in DOMAIN i |->
                      RDiv(R(i[k] * (image_l[k] - image_m[k])),
                           R(sigma2_l[k] + sigma2_m[k]))], cmask)

\* mutant: the column exponents pp are dropped
sum_exponents_row_only(p, pp) == p

sum_exponents(p, pp) == [d \in 1 .. Len(p) |-> p[d] + pp[d]]

sigma_pixel_sum(mask_l, mask_m, sigma2_l, sigma2_m, coord_arrays, p, pp) ==
    LET cmask == logical_and(mask_l, mask_m)
        i == coord_power(coord_arrays, sum_exponents(p, pp), Len(coord_arrays))
    IN  masked_sum([k \in DOMAIN i |->
                      RDiv(R(i[k]), R(sigma2_l[k] + sigma2_m[k]))], cmask)

\* ------------------------------------------------------------ build_lsq_eqs, by phase
\* for m, s in zip(masks, sigmas): ps = (s > 0); if not np.all(~ps): m &= ps
\* The masks are objects: maskRef[l] names the array held at masks[l], and the
\* in-place &= writes that array, whoever else holds it.  The loop runs over the
\* first cnt entries, cnt = min(len(masks), len(sigmas)).
positive(s) == [k \in DOMAIN s |-> s[k] > 0]

all_not(ps) == \A k \in DOMAIN ps : ~ps[k]

\* mutant: m |= ps
iand_or(m, ps) == [k \in DOMAIN m |-> m[k] \/ ps[k]]

iand(m, ps) == [k \in DOMAIN m |-> m[k] /\ ps[k]]

\* mutant: m ^= ps
refine_one_toggle(m, s) ==
    IF ~all_not(positive(s)) THEN [k \in DOMAIN m |-> m[k] # positive(s)[k]] ELSE m

\* mutant: the mask is and-ed with ps also when no sigma is positive
refine_one_always(m, s) == iand(m, positive(s))

refine_one(m, s) == IF ~all_not(positive(s)) THEN iand(m, positive(s)) ELSE m

RECURSIVE refine_masks(_, _, _, _)
refine_masks(objs, refs, sigs, cnt) ==
    IF cnt = 0 THEN objs
    ELSE LET before == refine_masks(objs, refs, sigs, cnt - 1)
             o == refs[cnt - 1]
         IN  [before EXCEPT ![o] = refine_one(before[o], sigs[cnt - 1])]

Min(x, y) == IF x < y THEN x ELSE y

\* sigmas2 = [s**2 for s in sigmas]
square(sigs) == [l \in DOMAIN sigs |-> [k \in DOMAIN sigs[l] |-> sigs[l][k] * sigs[l][k]]]

\* the coordinate provider (utils.create_coordinate_arrays): one array per
\* dimension holding index - center, center defaulting to shape // 2.  The arrays
\* come in x, y, ... order, i.e. array d is the index along axis D + 1 - d (the
\* order the documented example's matrix shows).  The image shape is (NPix,) in
\* one dimension and (1, NPix) in two.
image_shape(ndim) == IF ndim = 1 THEN <<NPix>> ELSE <<1, NPix>>

create_coordinate_arrays(shape, center) ==
    [d \in 1 .. Len(shape) |->
        LET axis == Len(shape) + 1 - d
        IN  [k \in Pix |-> unravel_index(k, shape)[axis]
                             - (IF center = "None" THEN shape[axis] \div 2
                                ELSE IF center = "ones" THEN 1 ELSE 0)]]

\* the tuple p (or pp) of flat index i, and its image l
image_of(i, n, degree) == unravel_index(i, gshape(n, degree))[1]

coeff_of(i, n, degree) == Tail(unravel_index(i, gshape(n, degree)))

\* first pass, free terms: b[i] += _image_pixel_sum(...) for every m != l
RECURSIVE free_term_sum(_, _, _, _, _, _, _, _)
free_term_sum(imgs, msks, sigs2, coords, l, p, m, acc) ==
    IF m < 0 THEN acc
    ELSE LET rest == free_term_sum(imgs, msks, sigs2, coords, l, p, m - 1, acc)
         IN  IF m = l THEN rest
             ELSE RAdd(rest, image_pixel_sum(imgs[l], imgs[m], msks[l], msks[m],
                                             sigs2[l], sigs2[m], coords, p))

\* lp = np.unravel_index(i, gshape) for every flat index i
unravelled(n, degree) ==
    Table([i \in 0 .. (sys_eq_array_size(n, degree) - 1) |->
              unravel_index(i, gshape(n, degree))])

first_pass_b(imgs, msks, sigs2, coords, n, degree) ==
    LET lp == unravelled(n, degree)
    IN  [i \in DOMAIN lp |->
            free_term_sum(imgs, msks, sigs2, coords, Head(lp[i]), Tail(lp[i]), n - 1, Zero)]

\* mutant: sigma2_l is always taken from the first image
first_pass_a_sigma0(msks, sigs2, coords, n, degree) ==
    LET lp == unravelled(n, degree)
    IN  [i \in DOMAIN lp |-> [j \in DOMAIN lp |->
            LET l == Head(lp[i])
                m == Head(lp[j])
            IN  IF l = m THEN Zero
                ELSE RNeg(sigma_pixel_sum(msks[l], msks[m], sigs2[0], sigs2[m], coords,
                                          Tail(lp[i]), Tail(lp[j])))]]

\* first pass, matrix: a[i, j] = -_sigma_pixel_sum(...) for l != m, zero otherwise
first_pass_a(msks, sigs2, coords, n, degree) ==
    LET lp == unravelled(n, degree)
    IN  [i \in DOMAIN lp |-> [j \in DOMAIN lp |->
            LET l == Head(lp[i])
                m == Head(lp[j])
            IN  IF l = m THEN Zero
                ELSE RNeg(sigma_pixel_sum(msks[l], msks[m], sigs2[l], sigs2[m], coords,
                                          Tail(lp[i]), Tail(lp[j])))]]

\* mutant: the second pass adds a[i, k] instead of subtracting it
RECURSIVE diag_entry_adds(_, _, _, _, _, _, _)
diag_entry_adds(arow, l, pp, m, n, degree, acc) ==
    IF m < 0 THEN acc
    ELSE LET rest == diag_entry_adds(arow, l, pp, m - 1, n, degree, acc)
         IN  IF m = l THEN rest
             ELSE RAdd(rest, arow[ravel_multi_index(<<m>> \o pp, gshape(n, degree))])

\* second pass: for m != l: k = ravel((m,) + pp); a[i, j] -= a[i, k]
RECURSIVE diag_entry(_, _, _, _, _, _, _)
diag_entry(arow, l, pp, m, n, degree, acc) ==
    IF m < 0 THEN acc
    ELSE LET rest == diag_entry(arow, l, pp, m - 1, n, degree, acc)
         IN  IF m = l THEN rest
             ELSE RSub(rest, arow[ravel_multi_index(<<m>> \o pp, gshape(n, degree))])

\* mutant: the l == m entry is built from the row's own multi-index p, not pp
second_pass_row_index(a1, n, degree) ==
    LET lp == unravelled(n, degree)
    IN  [i \in DOMAIN lp |-> [j \in DOMAIN lp |->
            LET l == Head(lp[i])
            IN  IF Head(lp[j]) = l
                THEN diag_entry(a1[i], l, Tail(lp[i]), n - 1, n, degree, a1[i][j])
                ELSE a1[i][j]]]

second_pass(a1, n, degree) ==
    LET lp == unravelled(n, degree)
    IN  [i \in DOMAIN lp |-> [j \in DOMAIN lp |->
            LET l == Head(lp[i])
            IN  IF Head(lp[j]) = l
                THEN diag_entry(a1[i], l, Tail(lp[j]), n - 1, n, degree, a1[i][j])
                ELSE a1[i][j]]]

\* ------------------------------------------------------------ lsq_solve
\* Matrices are functions row -> column -> number; vectors are functions.
RECURSIVE DotTo(_, _, _)
DotTo(u, v, n) == IF n = 0 THEN Zero ELSE RAdd(DotTo(u, v, n - 1), RMul(u[n - 1], v[n - 1]))

Size(f) == Cardinality(DOMAIN f)

Column(M, j) == [i \in DOMAIN M |-> M[i][j]]

MatVec(M, v) == [i \in DOMAIN M |-> DotTo(M[i], v, Size(v))]

\* u^T M for a matrix M with m columns
VecMat(u, M, m) == [j \in 0 .. (m - 1) |-> DotTo(u, Column(M, j), Size(u))]

IsZeroVec(v) == \A i \in DOMAIN v : v[i] = Zero

all_finite(M) == \A i \in DOMAIN M : \A j \in DOMAIN M[i] : IsFinite(M[i][j])

\* np.linalg.pinv: the Moore-Penrose inverse, computed exactly, column by
\* column (Greville).  pinv_cols(A, k) is the inverse of the first k columns of
\* A: a k-row matrix with as many columns as A has rows.
RECURSIVE pinv_cols(_, _)
pinv_cols(A, k) ==
    LET m == Size(A)
        ak == Table(Column(A, k - 1))
    IN  IF k = 1
        THEN LET nn == DotTo(ak, ak, m)
             IN  TableM([r \in {0} |-> [c \in 0 .. (m - 1) |->
                     IF nn = Zero THEN Zero ELSE RDiv(ak[c], nn)]])
        ELSE LET prev == pinv_cols(A, k - 1)
                 Ak1 == [i \in 0 .. (m - 1) |-> [j \in 0 .. (k - 2) |-> A[i][j]]]
                 d == Table(MatVec(prev, ak))
                 Ad == Table(MatVec(Ak1, d))
                 c == Table([i \in 0 .. (m - 1) |-> RSub(ak[i], Ad[i])])
                 bk == IF IsZeroVec(c)
                       THEN LET den == RAdd(R(1), DotTo(d, d, k - 1))
                                dP == Table(VecMat(d, prev, m))
                            IN  Table([j \in 0 .. (m - 1) |-> RDiv(dP[j], den)])
                       ELSE LET cc == DotTo(c, c, m)
                            IN  Table([j \in 0 .. (m - 1) |-> RDiv(c[j], cc)])
             IN  TableM([r \in 0 .. (k - 1) |->
                    IF r = k - 1 THEN bk
                    ELSE [j \in 0 .. (m - 1) |-> RSub(prev[r][j], RMul(d[r], bk[j]))]])

pinv(A) == pinv_cols(A, Size(A))

\* v = np.dot(np.linalg.pinv(matrix), free_term)
solve_flat(matrix, free_term) == MatVec(pinv(matrix), free_term)

\* v.reshape((n, v.size // n))
reshape(v, n) ==
    LET w == Size(v) \div n
    IN  [l \in 0 .. (n - 1) |-> [q \in 0 .. (w - 1) |-> v[l * w + q]]]

\* ------------------------------------------------------------ inputs
\* sample arrays, each a function of the pixel index
ImageSeq ==
    << [k \in Pix |-> k + 1],
       [k \in Pix |-> IF k = 0 THEN 3 ELSE 0],
       [k \in Pix |-> 0] >>

\* image stacks: the sample images taken cyclically from a starting point
ImageStacks(n) ==
    { [l \in 0 .. (n - 1) |-> ImageSeq[((start + l) % Len(ImageSeq)) + 1]] :
        start \in 0 .. (Len(ImageSeq) - 1) }

MaskPalette ==
    { [k \in Pix |-> TRUE],
      [k \in Pix |-> k = 0] }

SigmaPalette ==
    { [k \in Pix |-> 2],
      [k \in Pix |-> 0],
      [k \in Pix |-> IF k = 0 THEN -1 ELSE 1] }

\* degree tuple and center: None (the middle of the image), or a tuple of
\* zeros or of ones
GeometryChoices ==
    { [degree |-> <<0>>, center |-> "None"],
      [degree |-> <<1>>, center |-> "None"],
      [degree |-> <<1>>, center |-> "zeros"],
      [degree |-> <<0, 1>>, center |-> "ones"] }

Lengths == 1 .. MaxImages

\* ------------------------------------------------------------ state
VARIABLES
    images,        \* images[l]: the image arrays, l in 0..nimages-1
    sigmas,        \* sigmas[l]: the sigma arrays
    maskRef,       \* masks[l] is the array object maskRef[l]
    maskObj,       \* the mask array objects, by identity
    degree,        \* tuple of per-dimension degrees
    center,        \* "None", "zeros" or "ones"
    masks0,        \* maskObj as the caller passed it
    pc,            \* position in build_lsq_eqs / lsq_solve
    err,           \* the exception raised ("" when none)
    sigmas2,       \* cached squares
    coord_arrays,  \* the coordinate arrays
    a,             \* the system matrix
    b,             \* the free terms
    touched,       \* elements of some input array have been read or written
    npixsums,      \* pixel sums computed so far
    coeff,         \* lsq_solve's result
    solveArg,      \* lsq_solve's nimages argument: given or not (None), and its value
    call,          \* which call of build_lsq_eqs on these argument objects: 1 or 2
    first          \* what the first call left behind, once a second one has begun

vars == <<images, sigmas, maskRef, maskObj, degree, center, masks0, pc, err,
          sigmas2, coord_arrays, a, b, touched, npixsums, coeff, solveArg, call, first>>

inputs == <<images, sigmas, maskRef, degree, center, masks0>>

nimages == Cardinality(DOMAIN images)

\* masks[l], resolved through the object it refers to
masks == [l \in DOMAIN maskRef |-> maskObj[maskRef[l]]]

\* the argument objects a caller holds, before any call
Arguments ==
    /\ \E n \in Lengths : images \in ImageStacks(n)
    /\ \E n \in Lengths : sigmas \in [0 .. (n - 1) -> SigmaPalette]
    /\ \E n \in Lengths :
          \* distinct arrays, or one array passed for every image
          \/ /\ maskRef = [l \in 0 .. (n - 1) |-> l]
             /\ maskObj \in [0 .. (n - 1) -> MaskPalette]
          \/ /\ n > 1
             /\ maskRef = [l \in 0 .. (n - 1) |-> 0]
             /\ maskObj \in [{0} -> MaskPalette]
    /\ \E g \in GeometryChoices : degree = g.degree /\ center = g.center
    /\ masks0 = maskObj
    /\ err = ""
    /\ sigmas2 = <<>>
    /\ coord_arrays = <<>>
    /\ a = <<>>
    /\ b = <<>>
    /\ touched = FALSE
    /\ npixsums = 0
    /\ coeff = <<>>
    /\ solveArg = [given |-> FALSE, n |-> 0]
    /\ call = 1
    /\ first = <<>>

\* the caller is about to call build_lsq_eqs
Init == Arguments /\ pc = "start"

\* the caller is about to call match_lsq
InitMatch == Arguments /\ pc = "match"

\* ------------------------------------------------------------ build_lsq_eqs
\* nimages = len(images); if nimages != len(sigmas): raise ValueError
\* mutant: only a sigma list that is too short is rejected
lengths_differ_short(n_images, n_sigmas) == n_images > n_sigmas

lengths_differ(n_images, n_sigmas) == n_images # n_sigmas

CheckLengths ==
    /\ pc = "start"
    /\ IF lengths_differ(nimages, Cardinality(DOMAIN sigmas))
       THEN pc' = "raised" /\ err' = "ValueError"
       ELSE pc' = "refine" /\ err' = err
    /\ UNCHANGED <<inputs, call, first, maskObj, sigmas2, coord_arrays, a, b, touched, npixsums, coeff, solveArg>>

\* the mask refinement loop over zip(masks, sigmas)
RefineMasks ==
    /\ pc = "refine"
    /\ maskObj' = refine_masks(maskObj, maskRef, sigmas,
                               Min(Cardinality(DOMAIN maskRef), Cardinality(DOMAIN sigmas)))
    /\ touched' = TRUE
    /\ pc' = "prepare"
    /\ UNCHANGED <<inputs, call, first, err, sigmas2, coord_arrays, a, b, npixsums, coeff, solveArg>>

\* sigmas2, the coordinate arrays, and the zeroed a and b
Prepare ==
    /\ pc = "prepare"
    /\ sigmas2' = square(sigmas)
    /\ coord_arrays' = create_coordinate_arrays(image_shape(Len(degree)), center)
    /\ LET S == sys_eq_array_size(nimages, degree)
       IN  /\ a' = [i \in 0 .. (S - 1) |-> [j \in 0 .. (S - 1) |-> Zero]]
           /\ b' = [i \in 0 .. (S - 1) |-> Zero]
    /\ pc' = "rows"
    /\ UNCHANGED <<inputs, call, first, maskObj, err, touched, npixsums, coeff, solveArg>>

\* the first loop nest.  masks[m] for an m the list does not hold raises
\* IndexError: at row 0 (l = 0), after the sums for m = 1 .. len(masks) - 1.
FirstPass ==
    /\ pc = "rows"
    /\ LET nm == Cardinality(DOMAIN maskRef)
           S == sys_eq_array_size(nimages, degree)
           np == npolycoeff(degree)
       IN  IF nimages > 1 /\ nm < nimages
           THEN /\ pc' = "raised"
                /\ err' = "IndexError"
                /\ npixsums' = npixsums + (nm - 1)
                /\ UNCHANGED <<a, b>>
           ELSE /\ b' = first_pass_b(images, masks, sigmas2, coord_arrays, nimages, degree)
                /\ a' = first_pass_a(masks, sigmas2, coord_arrays, nimages, degree)
                /\ npixsums' = npixsums + S * (nimages - 1) + S * (S - np)
                /\ pc' = "diag"
                /\ err' = err
    /\ UNCHANGED <<inputs, call, first, maskObj, sigmas2, coord_arrays, touched, coeff, solveArg>>

\* the second loop nest (the l == m blocks) and the return
SecondPass ==
    /\ pc = "diag"
    /\ a' = second_pass(a, nimages, degree)
    /\ pc' = "built"
    /\ UNCHANGED <<inputs, call, first, maskObj, err, sigmas2, coord_arrays, b, touched, npixsums, coeff, solveArg>>

\* ------------------------------------------------------------ a second call
\* build_lsq_eqs has returned or raised, and the caller calls it again with the
\* same argument objects: the lists and arrays are the ones the first call left,
\* everything local to the call starts afresh
CallAgain ==
    /\ pc \in {"built", "raised"}
    /\ call = 1
    /\ first' = [pc |-> pc, err |-> err, a |-> a, b |-> b, maskObj |-> maskObj]
    /\ call' = 2
    /\ pc' = "start"
    /\ err' = ""
    /\ sigmas2' = <<>>
    /\ coord_arrays' = <<>>
    /\ a' = <<>>
    /\ b' = <<>>
    /\ touched' = FALSE
    /\ npixsums' = 0
    /\ UNCHANGED <<inputs, maskObj, coeff, solveArg>>

\* ------------------------------------------------------------ lsq_solve(a, b, nimages)
\* pinv of a matrix holding inf or nan: the SVD either fails to converge
\* (LinAlgError) or yields nan throughout, depending on the LAPACK build
LsqSolve ==
    /\ pc = "built"
    /\ Size(b) <= MaxSolve
    /\ LET v == IF all_finite(a) THEN solve_flat(a, b) ELSE [i \in DOMAIN b |-> NaN]
       IN  \E arg \in {[given |-> FALSE, n |-> 0]}
                        \cup {[given |-> TRUE, n |-> n] : n \in Lengths} :
           \E svdFails \in BOOLEAN :
              /\ svdFails => ~all_finite(a)
              /\ solveArg' = arg
              /\ IF svdFails
                 THEN pc' = "solve_raised" /\ err' = "LinAlgError" /\ coeff' = coeff
                 ELSE IF ~arg.given
                 THEN \* v.size // None
                      pc' = "solve_raised" /\ err' = "TypeError" /\ coeff' = coeff
                 ELSE IF arg.n * (Size(v) \div arg.n) # Size(v)
                 THEN \* cannot reshape
                      pc' = "solve_raised" /\ err' = "ValueError" /\ coeff' = coeff
                 ELSE pc' = "solved" /\ err' = err /\ coeff' = reshape(v, arg.n)
    /\ UNCHANGED <<inputs, call, first, maskObj, sigmas2, coord_arrays, a, b, touched, npixsums>>

\* ------------------------------------------------------------ match_lsq
\* masks = [m.copy() for m in masks]: a new array for every list entry, holding
\* the values of the array the entry referred to; the caller's arrays stay as
\* objects 0 .. k-1, the copy for entry l is object k + l
\* mutant: the list keeps referring to the caller's arrays
copy_masks_alias(objs, refs) == [objs |-> objs, refs |-> refs]

copy_masks(objs, refs) ==
    LET k == Size(objs)
    IN  [objs |-> [o \in 0 .. (k + Size(refs) - 1) |->
                      IF o < k THEN objs[o] ELSE objs[refs[o - k]]],
         refs |-> [l \in DOMAIN refs |-> k + l]]

\* match_lsq up to its call of build_lsq_eqs, for masks and sigmas given as
\* lists: the length check of masks, the copies, the length check of sigmas.
\* (All arrays of the model have one shape, and degree and center fit it, so
\* the shape and dimension checks pass.)
MatchLsq ==
    /\ pc = "match"
    /\ IF Size(maskRef) # nimages
       THEN /\ pc' = "raised"
            /\ err' = "ValueError"
            /\ UNCHANGED <<maskRef, maskObj, touched>>
       ELSE LET copied == copy_masks(maskObj, maskRef)
            IN  /\ maskObj' = copied.objs
                /\ maskRef' = copied.refs
                /\ touched' = TRUE
                /\ IF Size(sigmas) # nimages
                   THEN pc' = "raised" /\ err' = "ValueError"
                   ELSE pc' = "start" /\ err' = err
    /\ UNCHANGED <<images, sigmas, degree, center, masks0, call, first,
                   sigmas2, coord_arrays, a, b, npixsums, coeff, solveArg>>

\* bkg_poly_coef = lsq_solve(mat, free_col, nimages); return bkg_poly_coef
MatchSolve ==
    /\ pc = "built"
    /\ Size(b) <= MaxSolve
    /\ LET v == IF all_finite(a) THEN solve_flat(a, b) ELSE [i \in DOMAIN b |-> NaN]
       IN  \E svdFails \in BOOLEAN :
              /\ svdFails => ~all_finite(a)
              /\ solveArg' = [given |-> TRUE, n |-> nimages]
              /\ IF svdFails
                 THEN pc' = "solve_raised" /\ err' = "LinAlgError" /\ coeff' = coeff
                 ELSE pc' = "solved" /\ err' = err /\ coeff' = reshape(v, nimages)
    /\ UNCHANGED <<inputs, call, first, maskObj, sigmas2, coord_arrays, a, b, touched, npixsums>>

\* ------------------------------------------------------------ properties
\* build_lsq_eqs has returned (a, b); pc = "built" is the state at its return
Built == pc \in {"built", "solved", "solve_raised"}

\* the refinement loop has run
Refined == pc \in {"prepare", "rows", "diag"} \/ Built \/ (pc = "raised" /\ err = "IndexError")

\* every mask list entry is an array of its own
DistinctMasks == \A l, m \in DOMAIN maskRef : maskRef[l] = maskRef[m] => l = m

\* the coefficient multi-indices of a degree tuple
CoeffIndices(deg) ==
    { p \in [1 .. Len(deg) -> 0 .. npolycoeff(deg)] : \A d \in 1 .. Len(deg) : p[d] <= deg[d] }

\* flatten(l, p): position of (l, p_1, ..., p_D) in row-major order
RECURSIVE FlattenTo(_, _, _, _)
FlattenTo(l, p, deg, d) ==
    IF d = 0 THEN l ELSE FlattenTo(l, p, deg, d - 1) * (deg[d] + 1) + p[d]

Flatten(l, p) == FlattenTo(l, p, degree, Len(degree))

Images == 0 .. (nimages - 1)

\* sum of a set-indexed family of numbers
RECURSIVE SumOver(_, _)
SumOver(f, set) ==
    IF set = {} THEN Zero
    ELSE LET x == CHOOSE y \in set : TRUE IN RAdd(f[x], SumOver(f, set \ {x}))

\* C1 (as claimed): for every row i and multi-index pp, the entries
\* a[i, flatten(m, pp)] summed over all images m give zero.
C1_RowBlocksSumToZero_AsClaimed ==
    pc = "built" =>
        \A i \in DOMAIN a : \A pp \in CoeffIndices(degree) :
            SumOver([m \in Images |-> a[i][Flatten(m, pp)]], Images) = Zero

\* C1 (amended): for every row i and multi-index pp whose entries
\* a[i, flatten(m, pp)] are all finite, those entries summed over all images m
\* give zero.
C1_RowBlocksSumToZero ==
    pc = "built" =>
        \A i \in DOMAIN a : \A pp \in CoeffIndices(degree) :
            (\A m \in Images : IsFinite(a[i][Flatten(m, pp)]))
                => SumOver([m \in Images |-> a[i][Flatten(m, pp)]], Images) = Zero

C1_Witness ==
    /\ pc = "built"
    /\ nimages >= 2
    /\ all_finite(a)
    /\ \E i \in DOMAIN a : \E pp \in CoeffIndices(degree) : \E m \in Images :
          /\ m # image_of(i, nimages, degree)
          /\ a[i][Flatten(m, pp)] # Zero

\* what the claim calls image l's mask with its non-positive-sigma pixels cleared
Cleared(l) == [k \in Pix |-> masks0[maskRef[l]][k] /\ sigmas[l][k] > 0]

\* the images the refinement loop visits
Zipped == DOMAIN maskRef \cap DOMAIN sigmas

\* C2 (as claimed): on distinct mask arrays, mask l is left as it was when
\* clearing its non-positive-sigma pixels would leave no true pixel, and is
\* the cleared mask otherwise.
C2_Refinement_AsClaimed ==
    (Refined /\ DistinctMasks) =>
        \A l \in Zipped :
            masks[l] = IF \A k \in Pix : ~Cleared(l)[k]
                       THEN masks0[maskRef[l]] ELSE Cleared(l)

\* C2 (amended): on distinct mask arrays, mask l is left as it was when
\* sigma_l is non-positive at every pixel, and is the cleared mask otherwise
\* (also when the cleared mask has no true pixel left).
C2_Refinement ==
    (Refined /\ DistinctMasks) =>
        \A l \in Zipped :
            masks[l] = IF \A k \in Pix : sigmas[l][k] <= 0
                       THEN masks0[maskRef[l]] ELSE Cleared(l)

C2_Witness ==
    /\ Refined
    /\ DistinctMasks
    /\ \E l \in Zipped : masks[l] # masks0[maskRef[l]]
    /\ \E l \in Zipped : /\ \A k \in Pix : sigmas[l][k] <= 0
                         /\ \E k \in Pix : masks[l][k]

\* C3: with len(images) # len(sigmas) the call raises ValueError with every
\* mask array as the caller passed it and no matrix or vector produced.
C3_SigmaCountMismatch ==
    nimages # Size(sigmas) =>
        /\ pc \in {"start", "raised"}
        /\ pc = "raised" => err = "ValueError"
        /\ maskObj = masks0
        /\ a = <<>> /\ b = <<>>

C3_Witness ==
    /\ nimages # Size(sigmas)
    /\ pc = "raised"
    /\ err = "ValueError"
    /\ refine_masks(maskObj, maskRef, sigmas, Min(Size(maskRef), Size(sigmas))) # maskObj

\* C4 (as claimed): with len(masks) # len(images) and len(sigmas) =
\* len(images) the call raises the validation error before any numeric work:
\* no mask modified, no array element read, no pixel sum computed.
C4_MaskCountMismatch_AsClaimed ==
    (Size(maskRef) # nimages /\ Size(sigmas) = nimages) =>
        /\ pc \in {"start", "raised"}
        /\ pc = "raised" => err = "ValueError"
        /\ maskObj = masks0
        /\ ~touched
        /\ npixsums = 0

\* C5 (as claimed): lsq_solve called without nimages returns a flat vector
\* with one number per row of the matrix.
C5_SolveWithoutNimages_AsClaimed ==
    (pc \in {"solved", "solve_raised"} /\ ~solveArg.given) =>
        /\ pc = "solved"
        /\ DOMAIN coeff = DOMAIN a
        /\ \A i \in DOMAIN coeff : coeff[i] \in Int \X Nat

\* prod_d coord_d(k)^(e_d)
RECURSIVE CoordProduct(_, _, _)
CoordProduct(k, e, d) ==
    IF d = 0 THEN 1 ELSE CoordProduct(k, e, d - 1) * IPow(coord_arrays[d][k], e[d])

\* the pixels where both refined masks are true
Shared(l, m) == { k \in Pix : masks[l][k] /\ masks[m][k] }

Sigma2Sum(l, m, k) == sigmas[l][k] * sigmas[l][k] + sigmas[m][k] * sigmas[m][k]

ExpectedWeight(l, m, p, pp) ==
    SumOver([k \in Pix |->
                RDiv(R(CoordProduct(k, [d \in 1 .. Len(degree) |-> p[d] + pp[d]], Len(degree))),
                     R(Sigma2Sum(l, m, k)))],
            Shared(l, m))

\* C6: for l # m the entry a[flatten(l, p), flatten(m, pp)] is minus the sum,
\* over the pixels where both refined masks are true, of
\* prod_d coord_d^(p_d + pp_d) / (sigma_l^2 + sigma_m^2).
C6_OffDiagonalEntries ==
    pc = "built" =>
        \A l, m \in Images : \A p, pp \in CoeffIndices(degree) :
            l # m => a[Flatten(l, p)][Flatten(m, pp)] = RNeg(ExpectedWeight(l, m, p, pp))

C6_Witness ==
    /\ pc = "built"
    /\ \E d \in 1 .. Len(degree) : degree[d] > 0
    /\ \E l, m \in Images : \E p, pp \in CoeffIndices(degree) :
          /\ l # m
          /\ Shared(l, m) # Pix /\ Shared(l, m) # {}
          /\ \E d \in 1 .. Len(degree) : p[d] + pp[d] > 1
          /\ IsFinite(a[Flatten(l, p)][Flatten(m, pp)])
          /\ a[Flatten(l, p)][Flatten(m, pp)] # Zero

ExpectedFreeTerm(l, p) ==
    SumOver([m \in Images |->
                SumOver([k \in Pix |->
                            RDiv(R(CoordProduct(k, p, Len(degree))
                                     * (images[l][k] - images[m][k])),
                                 R(Sigma2Sum(l, m, k)))],
                        Shared(l, m))],
            Images \ {l})

\* C7: b[flatten(l, p)] is the sum over the other images m # l of the sum,
\* over the pixels where both refined masks are true, of
\* prod_d coord_d^(p_d) * (image_l - image_m) / (sigma_l^2 + sigma_m^2).
C7_FreeTerms ==
    pc = "built" =>
        \A l \in Images : \A p \in CoeffIndices(degree) :
            b[Flatten(l, p)] = ExpectedFreeTerm(l, p)

C7_Witness ==
    /\ pc = "built"
    /\ \E l, m \in Images : l # m /\ Shared(l, m) # Pix /\ Shared(l, m) # {}
    /\ \E i \in DOMAIN b : IsFinite(b[i]) /\ b[i] # Zero /\ coeff_of(i, nimages, degree) # coeff_of(0, nimages, degree)

\* the permutations of the image stack
Perms == { pi \in [Images -> Images] : \A l, m \in Images : pi[l] = pi[m] => l = m }

Inverse(pi) == [l \in Images |-> CHOOSE m \in Images : pi[m] = l]

\* build_lsq_eqs on the caller's arguments with the stack reordered so that
\* image l (with its mask and sigma) stands at position pi[l]
PermutedBuild(pi) ==
    LET inv == Inverse(pi)
        imgsP == [l \in Images |-> images[inv[l]]]
        sigsP == [l \in Images |-> sigmas[inv[l]]]
        refsP == [l \in DOMAIN maskRef |-> IF l \in Images THEN maskRef[inv[l]] ELSE maskRef[l]]
        objsP == refine_masks(masks0, refsP, sigsP, Min(Size(refsP), Size(sigsP)))
        msksP == TableM([l \in DOMAIN refsP |-> objsP[refsP[l]]])
        s2P == square(sigsP)
    IN  [a |-> TableM(second_pass(TableM(first_pass_a(msksP, s2P, coord_arrays, nimages, degree)),
                                  nimages, degree)),
         b |-> Table(first_pass_b(imgsP, msksP, s2P, coord_arrays, nimages, degree))]

\* C8: reordering the image stack by pi reorders a, b and the solution
\* block-wise by pi.
C8_Relabeling ==
    pc = "built" =>
        LET solvable == all_finite(a) /\ Size(b) <= MaxSolve
            sol == IF solvable THEN TableM(reshape(Table(solve_flat(a, b)), nimages)) ELSE <<>>
        IN  \A pi \in Perms :
                LET P == PermutedBuild(pi)
                    solP == TableM(reshape(Table(solve_flat(P.a, P.b)), nimages))
                IN  /\ \A l, m \in Images : \A p, pp \in CoeffIndices(degree) :
                          P.a[Flatten(pi[l], p)][Flatten(pi[m], pp)]
                              = a[Flatten(l, p)][Flatten(m, pp)]
                    /\ \A l \in Images : \A p \in CoeffIndices(degree) :
                          P.b[Flatten(pi[l], p)] = b[Flatten(l, p)]
                    /\ solvable => \A l \in Images : solP[pi[l]] = sol[l]

C8_Witness ==
    /\ pc = "built"
    /\ nimages >= 2
    /\ all_finite(a)
    /\ Size(b) <= MaxSolve
    /\ \E l, m \in Images :
          /\ sigmas[l] # sigmas[m]
          /\ masks[l] # masks[m]
          /\ reshape(solve_flat(a, b), nimages)[l] # reshape(solve_flat(a, b), nimages)[m]

Mean(x) == RDiv(SumOver([k \in Pix |-> R(x[k])], Pix), R(NPix))

\* half of mean(image_2) - mean(image_1)
HalfMeanDifference == RDiv(RSub(Mean(images[1]), Mean(images[0])), R(2))

\* two images, all-true masks, uniform positive sigmas, degree zero throughout
TwoImageZeroDegreeCase ==
    /\ nimages = 2
    /\ \A l \in Images : \A k \in Pix : masks0[maskRef[l]][k]
    /\ \A l \in Images : \A k \in Pix : sigmas[l][k] > 0 /\ sigmas[l][k] = sigmas[l][0]
    /\ \A d \in 1 .. Len(degree) : degree[d] = 0

\* C9: in the two-image zero-degree case lsq_solve(a, b, 2) gives image 1 the
\* coefficient -(mean(image_2) - mean(image_1)) / 2 and image 2 its negative.
C9_TwoImageClosedForm ==
    (pc = "solved" /\ solveArg.n = 2 /\ TwoImageZeroDegreeCase) =>
        /\ coeff[0][0] = RNeg(HalfMeanDifference)
        /\ coeff[1][0] = HalfMeanDifference

C9_Witness ==
    /\ pc = "solved"
    /\ solveArg.n = 2
    /\ TwoImageZeroDegreeCase
    /\ HalfMeanDifference # Zero

\* C10: no step changes an image, a sigma or a coordinate array, the mask
\* list, the degree or the center; a mask pixel only ever goes from true to
\* false.
C10_Frame ==
    [][ /\ images' = images
        /\ sigmas' = sigmas
        /\ maskRef' = maskRef
        /\ degree' = degree
        /\ center' = center
        /\ coord_arrays # <<>> => coord_arrays' = coord_arrays
        /\ \A o \in DOMAIN maskObj : \A k \in Pix : maskObj'[o][k] => maskObj[o][k] ]_vars

C10_Witness ==
    /\ Built
    /\ \E o \in DOMAIN maskObj : maskObj[o] # masks0[o]
    /\ \E o \in DOMAIN maskObj : \E k \in Pix : maskObj[o][k]

\* C11: the matrix build_lsq_eqs returns is symmetric, a[i, j] = a[j, i] for
\* all flat indices i and j, in the l # m blocks and in the l = m blocks alike
\* (an entry that is nan faces an entry that is nan).
C11_Symmetric ==
    pc = "built" => \A i \in DOMAIN a : \A j \in DOMAIN a : a[i][j] = a[j][i]

C11_Witness ==
    /\ pc = "built"
    /\ nimages >= 2
    /\ \E l, m \in Images : sigmas[l] # sigmas[m] /\ masks[l] # masks[m]
    /\ \E i, j \in DOMAIN a :
          /\ i # j
          /\ image_of(i, nimages, degree) # image_of(j, nimages, degree)
          /\ coeff_of(i, nimages, degree) # coeff_of(j, nimages, degree)
          /\ IsFinite(a[i][j]) /\ a[i][j] # Zero
    /\ \E i, j \in DOMAIN a :
          /\ i # j
          /\ image_of(i, nimages, degree) = image_of(j, nimages, degree)
          /\ IsFinite(a[i][j]) /\ a[i][j] # Zero

\* C12: a second call of build_lsq_eqs on the same argument objects ends as the
\* first did, returning a matrix and a vector equal to the first call's, and at
\* no point of it does a mask pixel differ from what the first call left.
C12_SecondCallSame ==
    call = 2 =>
        /\ maskObj = first.maskObj
        /\ pc \in {"built", "raised"} =>
              /\ pc = first.pc
              /\ err = first.err
              /\ a = first.a
              /\ b = first.b

C12_Witness ==
    /\ call = 2
    /\ pc = "built"
    /\ first.maskObj # masks0
    /\ \E o \in DOMAIN maskObj : \E k \in Pix : maskObj[o][k]
    /\ ~DistinctMasks
    /\ \E i \in DOMAIN b : IsFinite(b[i]) /\ b[i] # Zero

\* C13 (as claimed): the mask used for image l after the refinement is the
\* caller's mask refined with image l's own sigma alone, also when several
\* images are given one and the same mask array; no pixel of it is cleared on
\* account of another image's sigma.
C13_OwnSigmaOnly_AsClaimed ==
    Refined =>
        \A l \in Zipped :
            /\ masks[l] = refine_one(masks0[maskRef[l]], sigmas[l])
            /\ \A k \in Pix :
                  (masks0[maskRef[l]][k] /\ ~masks[l][k]) => sigmas[l][k] <= 0

\* C14: throughout a call of match_lsq, and after it has returned or raised,
\* every mask array the caller passed holds the values it held before the call.
C14_CallerMasksKept ==
    \A o \in DOMAIN masks0 : o \in DOMAIN maskObj /\ maskObj[o] = masks0[o]

C14_Witness ==
    /\ pc = "solved"
    /\ \A o \in DOMAIN masks0 : \A k \in Pix : masks0[o][k]
    /\ \E l \in DOMAIN maskRef : \E k \in Pix :
          /\ maskRef[l] \notin DOMAIN masks0
          /\ sigmas[l][k] <= 0
          /\ ~masks[l][k]
    /\ C14_CallerMasksKept

Next ==
    \/ CheckLengths
    \/ RefineMasks
    \/ Prepare
    \/ FirstPass
    \/ SecondPass
    \/ LsqSolve

Spec == Init /\ [][Next]_vars

\* build_lsq_eqs called once or twice on the same argument objects
NextTwice ==
    \/ CheckLengths
    \/ RefineMasks
    \/ Prepare
    \/ FirstPass
    \/ SecondPass
    \/ CallAgain

SpecTwice == Init /\ [][NextTwice]_vars

\* match_lsq called on the caller's arguments
NextMatch ==
    \/ MatchLsq
    \/ CheckLengths
    \/ RefineMasks
    \/ Prepare
    \/ FirstPass
    \/ SecondPass
    \/ MatchSolve

SpecMatch == InitMatch /\ [][NextMatch]_vars

====
